---- MODULE Spec2Model ----
\* Tor relay nearest-neighbour search (trnnr.py and trnns.py).
\* Strings are sequences of one-character strings; an ordered Python dict is
\* the sequence of its items in insertion order; an optional value is the
\* empty sequence (None) or a one-element sequence.
EXTENDS Integers, Sequences, FiniteSets, TLC

VARIABLES variant, relay_fpr, num_results, use_colour,
          pc, delivered, fetch_error, descs, dists, sorted_dists,
          i, emitted, lines, stdout, retval,
          f_desc, f_ref, f_colour, f_to_str, f_to_str_s, f_desc_str, f_line

vars == <<variant, relay_fpr, num_results, use_colour,
          pc, delivered, fetch_error, descs, dists, sorted_dists,
          i, emitted, lines, stdout, retval,
          f_desc, f_ref, f_colour, f_to_str, f_to_str_s, f_desc_str, f_line>>

runVars == <<variant, relay_fpr, num_results, use_colour,
             pc, delivered, fetch_error, descs, dists, sorted_dists,
             i, emitted, lines, stdout, retval>>

fmtVars == <<f_desc, f_ref, f_colour, f_to_str, f_to_str_s, f_desc_str, f_line>>

-----------------------------------------------------------------------------
\* Bounds.

\* Largest number of descriptors the query delivers.
MaxDescs == 3
\* --top ranges over -1 .. MaxTop.
MaxTop == 3

-----------------------------------------------------------------------------
\* Python values and string primitives.

None == <<>>

Some(v) == <<v>>

Min2(a, b) == IF a <= b THEN a ELSE b

Max2(a, b) == IF a >= b THEN a ELSE b

DigitChars == <<"0", "1", "2", "3", "4", "5", "6", "7", "8", "9">>

\* "%d" % n
RECURSIVE FmtD(_)
FmtD(n) ==
    IF n < 0 THEN <<"-">> \o FmtD(-n)
    ELSE IF n < 10 THEN <<DigitChars[n + 1]>>
    ELSE FmtD(n \div 10) \o <<DigitChars[(n % 10) + 1]>>

\* "%3d" % n
Fmt3d(n) ==
    LET s == FmtD(n)
    IN  [k \in 1..(Max2(3, Len(s)) - Len(s)) |-> " "] \o s

\* What "%d" % None raises.
TypeError == <<"TypeError">>

\* sep.join(parts)
RECURSIVE Join(_, _)
Join(parts, sep) ==
    IF parts = <<>> THEN <<>>
    ELSE IF Len(parts) = 1 THEN parts[1]
    ELSE parts[1] \o <<sep>> \o Join(Tail(parts), sep)

\* s.split(sep): cut at the first separator and split the rest; a string
\* without separator is its own single piece.
RECURSIVE Split(_, _)
Split(s, sep) ==
    IF \A q \in 1..Len(s) : s[q] # sep THEN <<s>>
    ELSE LET p == CHOOSE q \in 1..Len(s) :
                      s[q] = sep /\ \A m \in 1..(q - 1) : s[m] # sep
         IN  <<SubSeq(s, 1, p - 1)>> \o Split(SubSeq(s, p + 1, Len(s)), sep)

\* termcolor.colored(char, "red"): the character between the escape sequence
\* that sets the colour and the one that resets it, each kept as one unit.
RedOn == <<"ESC[31m">>

RedOff == <<"ESC[0m">>

colored(char) == RedOn \o <<char>> \o RedOff

-----------------------------------------------------------------------------
\* Levenshtein.distance: the classic edit distance, row by row.

Min3(a, b, c) == Min2(a, Min2(b, c))

RECURSIVE LevRow(_, _, _, _)
LevRow(prev, ch, t, cur) ==
    IF Len(cur) = Len(t) + 1 THEN cur
    ELSE LET j == Len(cur)
             cost == IF ch = t[j] THEN 0 ELSE 1
         IN  LevRow(prev, ch, t,
                    Append(cur, Min3(prev[j + 1] + 1, cur[j] + 1, prev[j] + cost)))

RECURSIVE LevRows(_, _, _)
LevRows(s, t, row) ==
    IF s = <<>> THEN row[Len(t) + 1]
    ELSE LET next == LevRow(row, Head(s), t, <<row[1] + 1>>)
         IN  \* every row has Len(t) + 1 entries
             IF Len(next) = Len(t) + 1 THEN LevRows(Tail(s), t, next) ELSE 0 - 1

CommonPrefix(s, t) ==
    Cardinality({k \in 1..Min2(Len(s), Len(t)) : \A q \in 1..k : s[q] = t[q]})

CommonSuffix(s, t) ==
    Cardinality({k \in 1..Min2(Len(s), Len(t)) :
                    \A q \in 1..k : s[Len(s) - q + 1] = t[Len(t) - q + 1]})

\* As the library does, the common prefix and suffix are stripped first.
Levenshtein(s, t) ==
    LET pre == CommonPrefix(s, t)
        s1  == SubSeq(s, pre + 1, Len(s))
        t1  == SubSeq(t, pre + 1, Len(t))
        suf == CommonSuffix(s1, t1)
        s2  == SubSeq(s1, 1, Len(s1) - suf)
        t2  == SubSeq(t1, 1, Len(t1) - suf)
    IN  LevRows(s2, t2, [j \in 1..(Len(t2) + 1) |-> j - 1])

-----------------------------------------------------------------------------
\* Descriptors.  tor_version, exit_policy and published hold the text that
\* "%s" renders for them; dir_port is optional.

Desc(fingerprint, nickname, dir_port, contact) ==
    [fingerprint        |-> fingerprint,
     nickname           |-> nickname,
     address            |-> <<"1", ".", "2">>,
     or_port            |-> 443,
     dir_port           |-> dir_port,
     tor_version        |-> <<"0", ".", "2">>,
     exit_policy        |-> <<"r">>,
     average_bandwidth  |-> 10,
     burst_bandwidth    |-> 20,
     observed_bandwidth |-> 5,
     operating_system   |-> <<"L">>,
     published          |-> <<"1", "6">>,
     uptime             |-> 7,
     contact            |-> contact]

\* Fingerprints are longer than the eight characters trnnr displays.
Fpr(n) == <<"F", "F", "F", "F", "F", "F", DigitChars[n + 1], "A", "B">>

Fingerprints == {Fpr(n) : n \in 1..MaxDescs}

\* The contents a delivered descriptor may have: distances 0, 1, 2, 3 and
\* ties occur among them, with and without a dir-port.
Contents ==
    {[nickname |-> <<"a", "a", "a">>, dir_port |-> None,    contact |-> <<"x">>],
     [nickname |-> <<"a", "a", "b">>, dir_port |-> Some(0), contact |-> <<"x">>],
     [nickname |-> <<"b", "b", "b">>, dir_port |-> None,    contact |-> <<"x">>]}

Pool == {Desc(f, c.nickname, c.dir_port, c.contact) : f \in Fingerprints, c \in Contents}

\* The descriptors the formatting functions are applied to: contact is free
\* text (empty, with and without commas), dir-port absent, 0 or positive.
FmtNicknames == {<<"a">>, <<"a", "b">>}

FmtDirPorts == {None, Some(0), Some(80)}

FmtContacts == {<<>>, <<"x", "y">>, <<"x", ",", "b">>, <<"x", "y", ",", "b">>}

FmtPool == {Desc(Fpr(1), n, d, c) : n \in FmtNicknames, d \in FmtDirPorts, c \in FmtContacts}

-----------------------------------------------------------------------------
\* Canonicalization and display.

\* dirport_to_int without its None case.
dirport_to_int_unchecked(dir_port) == dir_port

dirport_to_int(dir_port) ==
    IF dir_port = None THEN Some(0) ELSE dir_port

\* trnnr.to_str
to_str(desc) ==
    LET dp == dirport_to_int(desc.dir_port)
    IN  IF dp = None THEN TypeError
        ELSE desc.nickname \o desc.address \o FmtD(desc.or_port) \o FmtD(dp[1])
             \o desc.tor_version \o desc.exit_policy
             \o FmtD(desc.average_bandwidth) \o FmtD(desc.burst_bandwidth)
             \o FmtD(desc.observed_bandwidth) \o desc.operating_system
             \o desc.published \o FmtD(desc.uptime) \o desc.contact

\* trnns.to_str
trnns_to_str(desc) ==
    LET dir_port == IF desc.dir_port = None THEN Some(0) ELSE desc.dir_port
    IN  IF dir_port = None THEN TypeError
        ELSE desc.nickname \o desc.address \o FmtD(desc.or_port) \o FmtD(dir_port[1])
             \o desc.tor_version \o desc.exit_policy
             \o FmtD(desc.average_bandwidth) \o FmtD(desc.burst_bandwidth)
             \o FmtD(desc.observed_bandwidth) \o desc.operating_system
             \o desc.published \o FmtD(desc.uptime) \o desc.contact

\* The twelve displayed fields of trnnr, in the order of desc_to_str.
DisplayFields(desc) ==
    LET dp == dirport_to_int(desc.dir_port)
    IN  <<SubSeq(desc.fingerprint, 1, Min2(8, Len(desc.fingerprint))),
          desc.nickname,
          desc.address,
          FmtD(desc.or_port),
          IF dp = None THEN TypeError ELSE FmtD(dp[1]),
          desc.tor_version,
          desc.operating_system,
          FmtD(desc.average_bandwidth),
          FmtD(desc.burst_bandwidth),
          FmtD(desc.observed_bandwidth),
          FmtD(desc.uptime),
          desc.contact>>

desc_to_str(desc) ==
    IF dirport_to_int(desc.dir_port) = None THEN TypeError
    ELSE Join(DisplayFields(desc), ",")

\* The inner loop of format_desc over itertools.zip_longest(string, ref_string).
RECURSIVE FormatField(_, _, _, _)
FormatField(string, ref_string, use_col, p) ==
    IF p > Max2(Len(string), Len(ref_string)) THEN <<>>
    ELSE LET char     == IF p <= Len(string) THEN Some(string[p]) ELSE None
             ref_char == IF p <= Len(ref_string) THEN Some(ref_string[p]) ELSE None
             out      == IF (char = ref_char) /\ use_col THEN colored(char[1])
                         ELSE IF char # None THEN <<char[1]>> ELSE <<" ">>
         IN  out \o FormatField(string, ref_string, use_col, p + 1)

\* The outer loop of format_desc over zip(desc.split(","), ref_desc.split(",")).
RECURSIVE FormatPieces(_, _, _, _)
FormatPieces(strings, ref_strings, use_col, k) ==
    IF k > Min2(Len(strings), Len(ref_strings)) THEN <<>>
    ELSE FormatField(strings[k], ref_strings[k], use_col, 1) \o <<",">>
         \o FormatPieces(strings, ref_strings, use_col, k + 1)

format_desc(desc, ref_desc, use_col) ==
    LET d == desc_to_str(desc)
        r == desc_to_str(ref_desc)
        final_string == FormatPieces(Split(d, ","), Split(r, ","), use_col, 1)
    IN  Split(final_string, ",")

\* trnns.print_desc: the line it prints.
print_desc(desc) ==
    Join(<<desc.fingerprint, desc.nickname, desc.address, FmtD(desc.or_port),
           desc.tor_version, desc.operating_system,
           FmtD(desc.observed_bandwidth), desc.contact>>, ",")

-----------------------------------------------------------------------------
\* Ordered dicts as sequences of <<key, value>> items.

Keys(d) == {d[n][1] : n \in DOMAIN d}

\* d[k] = v: a new key goes last, a present key keeps its place.
DictSet(d, k, v) ==
    IF k \in Keys(d)
    THEN [n \in DOMAIN d |-> IF d[n][1] = k THEN <<k, v>> ELSE d[n]]
    ELSE Append(d, <<k, v>>)

\* d.get(k, None)
DictGet(d, k) ==
    IF k \in Keys(d) THEN Some(d[CHOOSE n \in DOMAIN d : d[n][1] = k][2]) ELSE None

\* The place of key k among the items of d.
IndexOf(d, k) == CHOOSE n \in DOMAIN d : d[n][1] = k

\* sorted(items, key=operator.itemgetter(1)): stable, ascending.
InsertSorted(s, x) ==
    LET n == Cardinality({k \in DOMAIN s : s[k][2] <= x[2]})
    IN  SubSeq(s, 1, n) \o <<x>> \o SubSeq(s, n + 1, Len(s))

RECURSIVE SortAcc(_, _)
SortAcc(items, acc) ==
    IF items = <<>> THEN acc
    ELSE SortAcc(Tail(items), InsertSorted(acc, Head(items)))

\* A sort that is not stable: equal keys come out in reverse order.
sorted_unstable(items) ==
    SortAcc([k \in 1..Len(items) |-> items[Len(items) + 1 - k]], <<>>)

\* No sort at all.
sorted_not(items) == items

sorted(items) == SortAcc(items, <<>>)

-----------------------------------------------------------------------------
\* The run: fetch_descriptors, then process_descriptors.

Variants == {"trnnr", "trnns"}

ToStr(v, desc) == IF v = "trnnr" THEN to_str(desc) ELSE trnns_to_str(desc)

\* The distance loop measuring against the first descriptor fetched instead
\* of the reference.
RECURSIVE ComputeDistsFirst(_, _, _, _)
ComputeDistsFirst(v, items, reference_str, acc) ==
    IF items = <<>> THEN acc
    ELSE LET desc == Head(items)[2]
             first == IF acc = <<>> THEN ToStr(v, desc) ELSE reference_str
         IN  ComputeDistsFirst(v, Tail(items), first,
                               DictSet(acc, desc.fingerprint,
                                       Levenshtein(first, ToStr(v, desc))))

\* The distance loop over descs.items().
RECURSIVE ComputeDists(_, _, _, _)
ComputeDists(v, items, reference_str, acc) ==
    IF items = <<>> THEN acc
    ELSE LET desc == Head(items)[2]
         IN  ComputeDists(v, Tail(items), reference_str,
                          DictSet(acc, desc.fingerprint,
                                  Levenshtein(reference_str, ToStr(v, desc))))

Header ==
    <<"distance", "fingerprint", "nickname", "addr", "orport", "dirport",
      "version", "os", "avgbw", "burstbw", "obsbw", "uptime", "contact">>

HeaderLine == "distance,fingerprint,nickname,addr,orport,version,os,bw,contact"

\* The loop test off by one.
LoopBreaksLate(n, top) == n = top + 1

\* The test that ends the display loop early.
LoopBreaks(n, top) == n = top

\* The command line: RELAY, --top and, in trnnr, --colour.  The code treats
\* fingerprints alike, so one RELAY stands for all; whether it is fetched, and
\* when, is up to the query.
Init ==
    /\ variant \in Variants
    /\ relay_fpr = Fpr(1)
    /\ num_results \in -1..MaxTop
    /\ use_colour \in (IF variant = "trnnr" THEN BOOLEAN ELSE {FALSE})
    /\ pc = "fetch"
    /\ delivered = <<>>
    /\ fetch_error = FALSE
    /\ descs = <<>>
    /\ dists = <<>>
    /\ sorted_dists = <<>>
    /\ i = 0
    /\ emitted = <<>>
    /\ lines = <<>>
    /\ stdout = <<>>
    /\ retval = None
    /\ f_desc = None
    /\ f_ref = None
    /\ f_colour = FALSE
    /\ f_to_str = None
    /\ f_to_str_s = None
    /\ f_desc_str = None
    /\ f_line = None

\* query.run() yields one more descriptor.  A fingerprint identifies its
\* relay, so no two descriptors of one answer share it.
FetchNext ==
    /\ pc = "fetch"
    /\ Len(delivered) < MaxDescs
    /\ \E desc \in Pool :
        /\ desc.fingerprint \notin Keys(descs)
        /\ delivered' = Append(delivered, desc)
        /\ descs' = DictSet(descs, desc.fingerprint, desc)
    /\ UNCHANGED <<variant, relay_fpr, num_results, use_colour, pc, fetch_error,
                   dists, sorted_dists, i, emitted, lines, stdout, retval>>
    /\ UNCHANGED fmtVars

\* query.run() is exhausted; fetch_descriptors returns descs.
FetchEnd ==
    /\ pc = "fetch"
    /\ pc' = "lookup"
    /\ UNCHANGED <<variant, relay_fpr, num_results, use_colour, delivered,
                   fetch_error, descs, dists, sorted_dists, i, emitted, lines,
                   stdout, retval>>
    /\ UNCHANGED fmtVars

\* query.run() raises and nothing catches it: the run ends without a result.
FetchFailUncaught ==
    /\ pc = "fetch"
    /\ fetch_error' = TRUE
    /\ pc' = "done"
    /\ UNCHANGED <<variant, relay_fpr, num_results, use_colour, delivered,
                   descs, dists, sorted_dists, i, emitted, lines, stdout, retval>>
    /\ UNCHANGED fmtVars

\* query.run() raises; the handler logs and fetch_descriptors returns descs.
FetchFail ==
    /\ pc = "fetch"
    /\ fetch_error' = TRUE
    /\ pc' = "lookup"
    /\ UNCHANGED <<variant, relay_fpr, num_results, use_colour, delivered,
                   descs, dists, sorted_dists, i, emitted, lines, stdout, retval>>
    /\ UNCHANGED fmtVars

\* The header printed before the reference is looked up.
LookupMissingAfterHeader ==
    /\ pc = "lookup"
    /\ DictGet(descs, relay_fpr) = None
    /\ stdout' = <<HeaderLine>>
    /\ retval' = Some(1)
    /\ pc' = "done"
    /\ UNCHANGED <<variant, relay_fpr, num_results, use_colour, delivered,
                   fetch_error, descs, dists, sorted_dists, i, emitted, lines>>
    /\ UNCHANGED fmtVars

\* The reference is not among the descriptors: return 1.
LookupMissing ==
    /\ pc = "lookup"
    /\ DictGet(descs, relay_fpr) = None
    /\ retval' = Some(1)
    /\ pc' = "done"
    /\ UNCHANGED <<variant, relay_fpr, num_results, use_colour, delivered,
                   fetch_error, descs, dists, sorted_dists, i, emitted, lines,
                   stdout>>
    /\ UNCHANGED fmtVars

\* The reference is there: compute every distance, sort, and put the header
\* row: the first of lines in trnnr, printed at once in trnns.
Rank ==
    /\ pc = "lookup"
    /\ DictGet(descs, relay_fpr) # None
    /\ LET reference == DictGet(descs, relay_fpr)[1]
           reference_str == ToStr(variant, reference)
           ds == ComputeDists(variant, descs, reference_str, <<>>)
       IN  /\ dists' = ds
           /\ sorted_dists' = sorted(ds)
    /\ IF variant = "trnnr"
       THEN /\ lines' = <<Header>>
            /\ UNCHANGED stdout
       ELSE /\ stdout' = <<HeaderLine>>
            /\ UNCHANGED lines
    /\ i' = 0
    /\ pc' = "display"
    /\ UNCHANGED <<variant, relay_fpr, num_results, use_colour, delivered,
                   fetch_error, descs, emitted, retval>>
    /\ UNCHANGED fmtVars

\* One pass of the display loop that does not break.
EmitRow ==
    /\ pc = "display"
    /\ i < Len(sorted_dists)
    /\ ~LoopBreaks(i, num_results)
    /\ LET elem == sorted_dists[i + 1]
           fingerprint == elem[1]
           distance == elem[2]
       IN  /\ emitted' = Append(emitted, elem)
           /\ IF variant = "trnnr"
              THEN /\ lines' = Append(lines,
                                      <<Fmt3d(distance)>>
                                      \o format_desc(DictGet(descs, fingerprint)[1],
                                                     DictGet(descs, relay_fpr)[1],
                                                     use_colour))
                   /\ UNCHANGED stdout
              ELSE /\ stdout' = Append(stdout,
                                       Fmt3d(distance) \o <<",">>
                                       \o print_desc(DictGet(descs, fingerprint)[1]))
                   /\ UNCHANGED lines
    /\ i' = i + 1
    /\ UNCHANGED <<variant, relay_fpr, num_results, use_colour, pc, delivered,
                   fetch_error, descs, dists, sorted_dists, retval>>
    /\ UNCHANGED fmtVars

\* The loop ends (break or exhaustion); trnnr prints the table; return 0.
Finish ==
    /\ pc = "display"
    /\ (i >= Len(sorted_dists) \/ LoopBreaks(i, num_results))
    /\ IF variant = "trnnr"
       THEN stdout' = <<lines>>
       ELSE UNCHANGED stdout
    /\ retval' = Some(0)
    /\ pc' = "done"
    /\ UNCHANGED <<variant, relay_fpr, num_results, use_colour, delivered,
                   fetch_error, descs, dists, sorted_dists, i, emitted, lines>>
    /\ UNCHANGED fmtVars

Next ==
    \/ FetchNext
    \/ FetchEnd
    \/ FetchFail
    \/ LookupMissing
    \/ Rank
    \/ EmitRow
    \/ Finish

Spec == Init /\ [][Next]_vars

-----------------------------------------------------------------------------
\* The canonicalization and display functions applied to chosen descriptors.

InitFmt ==
    /\ variant = "trnnr"
    /\ relay_fpr = Fpr(1)
    /\ num_results = 0
    /\ use_colour = FALSE
    /\ pc = "idle"
    /\ delivered = <<>>
    /\ fetch_error = FALSE
    /\ descs = <<>>
    /\ dists = <<>>
    /\ sorted_dists = <<>>
    /\ i = 0
    /\ emitted = <<>>
    /\ lines = <<>>
    /\ stdout = <<>>
    /\ retval = None
    /\ f_desc \in FmtPool
    /\ f_ref \in FmtPool
    /\ f_colour \in BOOLEAN
    /\ f_to_str = None
    /\ f_to_str_s = None
    /\ f_desc_str = None
    /\ f_line = None

CallToStr ==
    /\ f_to_str = None
    /\ f_to_str' = Some(to_str(f_desc))
    /\ UNCHANGED <<f_desc, f_ref, f_colour, f_to_str_s, f_desc_str, f_line>>
    /\ UNCHANGED runVars

CallTrnnsToStr ==
    /\ f_to_str_s = None
    /\ f_to_str_s' = Some(trnns_to_str(f_desc))
    /\ UNCHANGED <<f_desc, f_ref, f_colour, f_to_str, f_desc_str, f_line>>
    /\ UNCHANGED runVars

CallDescToStr ==
    /\ f_desc_str = None
    /\ f_desc_str' = Some(desc_to_str(f_desc))
    /\ UNCHANGED <<f_desc, f_ref, f_colour, f_to_str, f_to_str_s, f_line>>
    /\ UNCHANGED runVars

CallFormatDesc ==
    /\ f_line = None
    /\ f_line' = Some(format_desc(f_desc, f_ref, f_colour))
    /\ UNCHANGED <<f_desc, f_ref, f_colour, f_to_str, f_to_str_s, f_desc_str>>
    /\ UNCHANGED runVars

NextFmt ==
    \/ CallToStr
    \/ CallTrnnsToStr
    \/ CallDescToStr
    \/ CallFormatDesc

SpecFmt == InitFmt /\ [][NextFmt]_vars

-----------------------------------------------------------------------------
\* What the claims speak of.

\* The ranking has been built.
Ranked == pc = "display" \/ (pc = "done" /\ retval = Some(0))

\* The run returned 0.
Succeeded == pc = "done" /\ retval = Some(0)

\* The data rows printed: the rows of the table after its header in trnnr, the
\* lines after the header line in trnns.
PrintedRows ==
    IF stdout = <<>> THEN <<>>
    ELSE IF variant = "trnnr" THEN Tail(stdout[1]) ELSE Tail(stdout)

\* The cells of a printed row.
RowCells(row) == IF variant = "trnnr" THEN row ELSE Split(row, ",")

\* A fingerprint as a row shows it.
ShownFpr(f) == IF variant = "trnnr" THEN SubSeq(f, 1, Min2(8, Len(f))) ELSE f

\* The distance of a descriptor to the reference, computed afresh.
TrueDistance(desc) ==
    Levenshtein(ToStr(variant, DictGet(descs, relay_fpr)[1]), ToStr(variant, desc))

\* The characters of a table cell with their marking.
RECURSIVE Decode(_)
Decode(cell) ==
    IF cell = <<>> THEN <<>>
    ELSE IF Len(cell) >= 3 /\ <<cell[1]>> = RedOn /\ <<cell[3]>> = RedOff
         THEN <<[ch |-> cell[2], red |-> TRUE]>> \o Decode(SubSeq(cell, 4, Len(cell)))
         ELSE <<[ch |-> cell[1], red |-> FALSE]>> \o Decode(Tail(cell))

\* The text of a cell, its colouring taken off.
CellText(cell) == [k \in 1..Len(Decode(cell)) |-> Decode(cell)[k].ch]

\* The printed rows are the emitted ranking entries, in order.
RowsShowEmitted ==
    /\ Len(PrintedRows) = Len(emitted)
    /\ \A n \in 1..Len(emitted) :
        /\ RowCells(PrintedRows[n])[1] = Fmt3d(emitted[n][2])
        /\ CellText(RowCells(PrintedRows[n])[2]) = ShownFpr(emitted[n][1])

-----------------------------------------------------------------------------
\* C1: when the reference fingerprint is not a key of the fetched mapping
\* (empty or not), the run returns 1 and ranks nothing: no distance, no sort,
\* no row, and nothing printed, not even the header.
C1_AbsentReferenceFails ==
    (pc # "fetch" /\ relay_fpr \notin Keys(descs)) =>
        /\ pc \in {"lookup", "done"}
        /\ pc = "done" => retval = Some(1)
        /\ dists = <<>>
        /\ sorted_dists = <<>>
        /\ emitted = <<>>
        /\ lines = <<>>
        /\ stdout = <<>>

C1_Witness ==
    /\ pc = "done"
    /\ retval = Some(1)
    /\ relay_fpr \notin Keys(descs)
    /\ Len(descs) >= 2

\* C2: the ranking is ascending by distance, and entries of equal distance
\* keep the order in which their descriptors entered the fetched mapping.
C2_RankingAscendingStable ==
    Ranked =>
        /\ Len(sorted_dists) = Len(descs)
        /\ Keys(sorted_dists) = Keys(descs)
        /\ \A a, b \in 1..Len(sorted_dists) :
            a < b =>
                /\ sorted_dists[a][2] <= sorted_dists[b][2]
                /\ sorted_dists[a][2] = sorted_dists[b][2] =>
                       IndexOf(descs, sorted_dists[a][1]) < IndexOf(descs, sorted_dists[b][1])

C2_Witness ==
    /\ Ranked
    /\ Len(sorted_dists) = 3
    /\ sorted_dists[1][2] < sorted_dists[2][2]
    /\ sorted_dists[2][2] = sorted_dists[3][2]
    /\ IndexOf(descs, sorted_dists[1][1]) = 3

\* C3: for every integer --top value K, negative ones included, at most K data
\* rows are printed after the header.
C3_AtMostKRows ==
    Succeeded => Len(PrintedRows) <= num_results

\* C4: when 0 < K <= N the printed rows are the first K entries of the
\* ascending ranking, in ranking order, and no descriptor left out is nearer
\* to the reference than one printed.
C4_RowsAreFirstK ==
    (Succeeded /\ 0 < num_results /\ num_results <= Len(descs)) =>
        /\ emitted = SubSeq(sorted_dists, 1, num_results)
        /\ RowsShowEmitted
        /\ \A n \in 1..Len(emitted) :
            /\ emitted[n][2] = TrueDistance(DictGet(descs, emitted[n][1])[1])
            /\ \A m \in 1..Len(descs) :
                (descs[m][1] \notin Keys(emitted)) =>
                    emitted[n][2] <= TrueDistance(descs[m][2])
        /\ \A a, b \in 1..Len(emitted) : a < b => emitted[a][2] <= emitted[b][2]

\* The scenario: A (the reference, 0), B (3), C (1) fetched in this order and
\* K = 2: the rows are A then C.
C4_Witness ==
    /\ Succeeded
    /\ num_results = 2
    /\ Len(descs) = 3
    /\ descs[1][1] = relay_fpr
    /\ TrueDistance(descs[2][2]) = 3
    /\ TrueDistance(descs[3][2]) = 1
    /\ emitted = <<<<descs[1][1], 0>>, <<descs[3][1], 1>>>>
    /\ Len(PrintedRows) = 2

\* C5: when K exceeds the number N of fetched descriptors, exactly N rows are
\* printed, one for every fetched fingerprint; when K is 0 only the header is.
C5_Truncation ==
    Succeeded =>
        /\ num_results > Len(descs) =>
            /\ Len(emitted) = Len(descs)
            /\ Keys(emitted) = Keys(descs)
            /\ RowsShowEmitted
        /\ num_results = 0 =>
            /\ emitted = <<>>
            /\ PrintedRows = <<>>
            /\ stdout = (IF variant = "trnnr" THEN <<<<Header>>>> ELSE <<HeaderLine>>)

C5_Witness ==
    /\ Succeeded
    /\ num_results > Len(descs)
    /\ Len(PrintedRows) = 2
    /\ descs[1][1] # relay_fpr

\* C6: a transport error leaves fetch_descriptors returning the descriptors
\* delivered before it, keyed by fingerprint, and the run goes on as after a
\* complete fetch: it ranks them all and returns 0 if the reference is among
\* them, and returns 1 if not.
C6_PartialFetchKept ==
    (fetch_error /\ pc # "fetch") =>
        /\ descs = [n \in 1..Len(delivered) |-> <<delivered[n].fingerprint, delivered[n]>>]
        /\ pc = "done" =>
            /\ retval = (IF relay_fpr \in Keys(descs) THEN Some(0) ELSE Some(1))
            /\ retval = Some(0) => Keys(sorted_dists) = {d.fingerprint : d \in
                                       {delivered[n] : n \in 1..Len(delivered)}}

C6_Witness ==
    /\ fetch_error
    /\ Succeeded
    /\ Len(delivered) = 2
    /\ Len(sorted_dists) = 2

\* C7: once the ranking is built the reference's own entry has distance 0 and
\* none is smaller, so with K >= 1 the first printed row has distance 0.
C7_ReferenceFirst ==
    Ranked =>
        /\ DictGet(dists, relay_fpr) = Some(0)
        /\ DictGet(sorted_dists, relay_fpr) = Some(0)
        /\ \A n \in 1..Len(sorted_dists) : sorted_dists[n][2] >= 0
        /\ emitted # <<>> => emitted[1][2] = 0
        /\ (Succeeded /\ num_results >= 1) =>
            /\ PrintedRows # <<>>
            /\ RowCells(PrintedRows[1])[1] = Fmt3d(0)

C7_Witness ==
    /\ Succeeded
    /\ num_results >= 1
    /\ Len(descs) = 3
    /\ descs[3][1] = relay_fpr
    /\ emitted[1][1] = relay_fpr
    /\ Len(emitted) >= 2
    /\ emitted[2][2] > 0

\* C8: in highlighted mode format_desc marks the character at position p of
\* a candidate's displayed field exactly when the reference's same field has
\* the same character at position p, for each of the 12 fields and whatever
\* the field values (commas in contact included); in plain mode it marks none.
C8_MarksAlignedPerField ==
    f_line # None =>
        /\ Len(f_line[1]) >= 12
        /\ \A f \in 1..12 :
            LET cand == DisplayFields(f_desc)[f]
                ref  == DisplayFields(f_ref)[f]
                cell == Decode(f_line[1][f])
            IN  /\ Len(cell) >= Len(cand)
                /\ \A p \in 1..Len(cell) :
                    /\ p <= Len(cand) => cell[p].ch = cand[p]
                    /\ cell[p].red = (/\ f_colour
                                      /\ p <= Len(cand)
                                      /\ p <= Len(ref)
                                      /\ cand[p] = ref[p])

\* C9: to_str of a descriptor without dir-port succeeds and gives the
\* canonical string of the same descriptor with dir-port 0, in both variants,
\* and so does desc_to_str.
C9_AbsentDirPortIsZero ==
    (pc = "idle" /\ f_desc.dir_port = None) =>
        LET zero == [f_desc EXCEPT !.dir_port = Some(0)]
        IN  /\ f_to_str # None =>
                /\ f_to_str[1] # TypeError
                /\ f_to_str[1] = to_str(zero)
            /\ f_to_str_s # None =>
                /\ f_to_str_s[1] # TypeError
                /\ f_to_str_s[1] = trnns_to_str(zero)
            /\ f_desc_str # None =>
                /\ f_desc_str[1] # TypeError
                /\ f_desc_str[1] = desc_to_str(zero)

C9_Witness ==
    /\ pc = "idle"
    /\ f_desc.dir_port = None
    /\ f_to_str # None
    /\ f_to_str_s # None
    /\ f_desc_str # None
    /\ f_to_str[1] = f_desc.nickname \o <<"1", ".", "2", "4", "4", "3", "0", "0", ".", "2">>
                     \o <<"r", "1", "0", "2", "0", "5", "L", "1", "6", "7">> \o f_desc.contact

\* C10: in trnnr every data row handed to the table formatter has as many
\* cells as the header row (13), and cell c holds the value of the column the
\* header names at position c.
C10_RowsMatchHeader ==
    variant = "trnnr" =>
        \A n \in 2..Len(lines) :
            LET desc == DictGet(descs, emitted[n - 1][1])[1]
            IN  /\ Len(lines[n]) = Len(Header)
                /\ lines[n][1] = Fmt3d(emitted[n - 1][2])
                /\ \A c \in 2..Len(Header) :
                    LET field == DisplayFields(desc)[c - 1]
                    IN  SubSeq(CellText(lines[n][c]), 1, Len(field)) = field

====
